---- MODULE Spec2Model ----
(***************************************************************************)
(* Model of the price-history pipeline of cubie_backend                    *)
(* (src/unnamed/part_001, the module imported as ../solana/market.js) and   *)
(* of its driver syncAgentTransactionHistory (src/src/controllers/agent.ts).*)
(*                                                                         *)
(* Numbers.  JavaScript numbers are modelled as exact rationals            *)
(* [num |-> n, den |-> d] in lowest terms with d > 0, plus the two special *)
(* values NaN (0/0) and Infinity (1/0).  Rounding of doubles is not        *)
(* modelled.  An optional value is <<>> (null, undefined) or <<v>>.        *)
(* Indexes into arrays are 1-based here and 0-based in the source.         *)
(***************************************************************************)
EXTENDS Integers, Sequences, FiniteSets, TLC

(***************************************************************************)
(* Program constants                                                       *)
(***************************************************************************)
\* while (retries < 5)
MaxRetries == 5
\* LAMPORTS_PER_SOL of @solana/web3.js
LAMPORTS_PER_SOL == 1000000000
\* Math.pow(10, 6): the asset's fixed decimal factor
TOKEN_SCALE == 1000000
\* the divisor 1e6 of the priority fee (micro-lamports per lamport)
MICRO == 1000000

PUMPFUN_PROGRAM == "6EF8rrecthR5Dkzon8Nwu78hRvfCKubJ14M5uBEwF6P"
NATIVE_MINT == "So11111111111111111111111111111111111111112"
ComputeBudgetProgramId == "ComputeBudget111111111111111111111111111111"
OtherProgramId == "TokenkegQfeZyiNwAJbNbGKPFXCWuBvf9Ss623VQ5DA"

(***************************************************************************)
(* Numbers                                                                 *)
(***************************************************************************)
NaN == [num |-> 0, den |-> 0]
Infinity == [num |-> 1, den |-> 0]

Abs(n) == IF n < 0 THEN -n ELSE n

RECURSIVE Gcd(_, _)
Gcd(a, b) == IF b = 0 THEN a ELSE Gcd(b, a % b)

\* n / d as a JavaScript number (d # 0)
Rat(n, d) ==
  LET g == Gcd(Abs(n), Abs(d))
      s == IF d < 0 THEN -1 ELSE 1
  IN  [num |-> (s * n) \div g, den |-> Abs(d) \div g]

\* !isNaN(x) && isFinite(x)
IsNum(x) == x.den # 0

\* a - b
Sub(a, b) ==
  IF ~IsNum(a) \/ ~IsNum(b) THEN NaN
  ELSE LET g == Gcd(a.den, b.den)
       IN  Rat(a.num * (b.den \div g) - b.num * (a.den \div g),
               (a.den \div g) * b.den)

Zero == [num |-> 0, den |-> 1]

\* Math.abs
MathAbs(a) == IF IsNum(a) THEN [num |-> Abs(a.num), den |-> a.den] ELSE a

\* a / b for a, b >= 0: x/0 is Infinity, 0/0 is NaN
Div(a, b) ==
  IF a = NaN \/ b = NaN THEN NaN
  ELSE IF b = Infinity THEN (IF a = Infinity THEN NaN ELSE Zero)
  ELSE IF a = Infinity THEN Infinity
  ELSE IF b.num = 0 THEN (IF a.num = 0 THEN NaN ELSE Infinity)
  ELSE LET g1 == Gcd(Abs(a.num), Abs(b.num))
           g2 == Gcd(a.den, b.den)
       IN  Rat((a.num \div g1) * (b.den \div g2),
               (a.den \div g2) * (b.num \div g1))

Less(a, b) == IsNum(a) /\ IsNum(b) /\ a.num * b.den < b.num * a.den

\* price && !isNaN(price) && isFinite(price) ? price : 0
GuardedPriceNoClamp(price) == price
GuardedPrice(price) ==
  IF IsNum(price) /\ price.num # 0 THEN price ELSE Zero

(***************************************************************************)
(* computeTokenPrice                                                       *)
(*                                                                         *)
(* A ParsedTransactionWithMeta is a record                                 *)
(*   signature, blockTime (0 stands for null),                             *)
(*   accountKeys  : sequence of [pubkey, signer],                          *)
(*   instructions : sequence of [programId, type, microLamports],          *)
(*   meta         : optional record of                                     *)
(*     preTokenBalances, postTokenBalances : optional sequences of         *)
(*                                           [owner, mint, amount],        *)
(*     preBalances, postBalances : optional sequences of lamports,         *)
(*     fee, computeUnitsConsumed : numbers (0 also stands for undefined).  *)
(***************************************************************************)
None == <<>>
Some(v) == <<v>>

\* parsedTranstion?.meta?.<field>
MetaField(tx, f) == IF tx.meta = None THEN None ELSE tx.meta[1][f]

\* Number(balances?.find(b => b.owner === key && b.mint === mint)
\*          ?.uiTokenAmount.amount || 0) / Math.pow(10, 6)
RECURSIVE FindAmount(_, _, _)
FindAmount(balances, key, mint) ==
  IF balances = <<>> THEN 0
  ELSE IF Head(balances).owner = key /\ Head(balances).mint = mint
       THEN Head(balances).amount
       ELSE FindAmount(Tail(balances), key, mint)

TokenBalance(balances, key, mint) ==
  Rat(FindAmount(balances, key, mint), TOKEN_SCALE)

\* signers: the account keys with key.signer, with their indexes
SignersAllKeys(tx) ==
  [i \in 1..Len(tx.accountKeys) |-> [key |-> tx.accountKeys[i].pubkey, index |-> i]]
Signers(tx) ==
  LET keys == tx.accountKeys
      RECURSIVE From(_)
      From(i) == IF i > Len(keys) THEN <<>>
                 ELSE IF keys[i].signer
                      THEN <<[key |-> keys[i].pubkey, index |-> i]>> \o From(i + 1)
                      ELSE From(i + 1)
  IN  From(1)

\* the micro-lamport price left by the forEach over the compute-budget
\* instructions: the last SetComputeUnitPrice wins, 0n when there is none
RECURSIVE MicroLamports(_, _)
MicroLamports(instructions, acc) ==
  IF instructions = <<>> THEN acc
  ELSE MicroLamports(Tail(instructions),
         IF Head(instructions).programId = ComputeBudgetProgramId
            /\ Head(instructions).type = "SetComputeUnitPrice"
         THEN Head(instructions).microLamports ELSE acc)

\* priorityFee = Math.floor((computeUsage * Number(microLamports)) / 1e6)
PriorityFeeDividedFirst(tx) ==
  IF \E i \in 1..Len(tx.instructions) :
        tx.instructions[i].programId = ComputeBudgetProgramId
  THEN tx.meta[1].computeUnitsConsumed * (MicroLamports(tx.instructions, 0) \div MICRO)
  ELSE 0
PriorityFee(tx) ==
  IF \E i \in 1..Len(tx.instructions) :
        tx.instructions[i].programId = ComputeBudgetProgramId
  THEN (tx.meta[1].computeUnitsConsumed * MicroLamports(tx.instructions, 0)) \div MICRO
  ELSE 0

\* type = "buy"; if (postTokenBalance < preTokenBalance) type = "sell"
TradeTypeFlipped(preTokenBalance, postTokenBalance) ==
  IF Less(preTokenBalance, postTokenBalance) THEN "sell" ELSE "buy"
TradeType(preTokenBalance, postTokenBalance) ==
  IF Less(postTokenBalance, preTokenBalance) THEN "sell" ELSE "buy"

\* balances[signer.index] / LAMPORTS_PER_SOL; an index past the end of the
\* array reads undefined, and undefined (+ fees) / LAMPORTS_PER_SOL is NaN
SolBalanceFeesLeftOut(balances, index, added) ==
  IF index \in 1..Len(balances)
  THEN Rat(balances[index], LAMPORTS_PER_SOL)
  ELSE NaN
SolBalance(balances, index, added) ==
  IF index \in 1..Len(balances)
  THEN Rat(balances[index] + added, LAMPORTS_PER_SOL)
  ELSE NaN

\* the body of signers.forEach: the records pushed for one signer (0 or 1)
PriceForSigner(tx, mint, signer) ==
  LET meta == tx.meta[1]
      preTokenBalance == TokenBalance(meta.preTokenBalances[1], signer.key, mint)
      postTokenBalance == TokenBalance(meta.postTokenBalances[1], signer.key, mint)
      fee == meta.fee
      priorityFee == PriorityFee(tx)
      preSolBalance == SolBalance(meta.preBalances[1], signer.index, 0)
      postSolBalance == SolBalance(meta.postBalances[1], signer.index, fee + priorityFee)
      type == TradeType(preTokenBalance, postTokenBalance)
      price == Div(MathAbs(Sub(preTokenBalance, postTokenBalance)),
                   MathAbs(Sub(preSolBalance, postSolBalance)))
  IN  IF preTokenBalance = postTokenBalance \/ tx.blockTime = 0
      THEN <<>>
      ELSE <<[signature |-> tx.signature,
              mint |-> mint,
              date |-> tx.blockTime,
              type |-> type,
              owner |-> signer.key,
              preTokenBalance |-> preTokenBalance,
              postTokenBalance |-> postTokenBalance,
              preSolBalance |-> preSolBalance,
              postSolBalance |-> postSolBalance,
              price |-> GuardedPrice(price)]>>

\* computeTokenPrice(parsedTranstion, mint); the undefined of the early
\* return is the empty sequence (the caller pushes nothing for either)
computeTokenPrice(tx, mint) ==
  IF \/ MetaField(tx, "preTokenBalances") = None
     \/ MetaField(tx, "postTokenBalances") = None
     \/ MetaField(tx, "preBalances") = None
     \/ MetaField(tx, "postBalances") = None
     \/ tx.blockTime = 0
  THEN <<>>
  ELSE LET signers == Signers(tx)
           RECURSIVE Each(_)
           Each(i) == IF i > Len(signers) THEN <<>>
                      ELSE PriceForSigner(tx, mint, signers[i]) \o Each(i + 1)
       IN  Each(1)

(***************************************************************************)
(* Bounds of the model                                                     *)
(***************************************************************************)
\* signatures in the history of one venue
HistLen == 4
\* requests in flight the model follows (the source never has two)
MaxInFlight == 2
\* page size of the signature-history provider
PageSize == 2
\* BATCH_SIZE of getTokenPoolInfo (100 in the source), scaled down
BATCH_SIZE == 2
\* the cap of .slice(0, 5000), scaled down
SLICE_CAP == 3
\* ids of the agents returned by getAgents, in the order returned
AgentIds == {1, 2}
\* signature ids of venue c are c * SigStride + 1 .. c * SigStride + HistLen
SigStride == 10

Mints == {1, 2}
Min(a, b) == IF a < b THEN a ELSE b

(***************************************************************************)
(* The remote collaborators                                                *)
(***************************************************************************)
\* PublicKey values
Pda(seed, key, program) ==
  [kind |-> "pda", seed |-> seed, key |-> key, program |-> program]
Key(id) == [kind |-> "key", seed |-> "", key |-> id, program |-> ""]

\* The venue registry: the pools it lists, in the order it reports them.
Pool(id, mint) == [id |-> id, mint1 |-> mint, mint2 |-> NATIVE_MINT]
RegistryStates ==
  { <<>>, <<Pool(1, 1)>>, <<Pool(2, 1), Pool(1, 1)>> }

\* raydium.api.fetchPoolByMints({mint1, mint2}) when it answers
fetchPoolByMints(reg, mint1, mint2) ==
  [data |-> SelectSeq(reg, LAMBDA p : p.mint1 = mint1 /\ p.mint2 = mint2)]

\* Signature ids grow with time over the whole chain; a venue listed by the
\* registry is younger than every bonding curve.
VenueCode(address) ==
  IF address.kind = "pda" THEN address.key ELSE Cardinality(Mints) + address.key

\* The signature history of a venue, newest first; fl is the set of
\* positions whose transaction failed (err is not null).
VenueHistory(address, fl) ==
  [i \in 1..HistLen |->
     LET n == HistLen + 1 - i
     IN  [signature |-> VenueCode(address) * SigStride + n,
          err |-> IF n \in fl THEN Some("InstructionError") ELSE None]]

\* solanaConnection.getSignaturesForAddress(address, {until, before}) when
\* it answers: the newest PageSize records older than before and newer than
\* until (0 stands for an option that is not passed)
getSignaturesForAddress(hist, until, before) ==
  LET inRange == SelectSeq(hist, LAMBDA r :
                   /\ (until = 0 \/ r.signature > until)
                   /\ (before = 0 \/ r.signature < before))
  IN  SubSeq(inRange, 1, Min(PageSize, Len(inRange)))

\* The body the transaction provider holds for a signature.
TokenEntries(owner, amount) ==
  <<[owner |-> owner, mint |-> 1, amount |-> amount],
    [owner |-> owner, mint |-> 2, amount |-> amount]>>

TxOf(sig) ==
  LET n == sig % SigStride
      base == [signature |-> sig, blockTime |-> 1700000000 + sig,
               accountKeys |-> <<[pubkey |-> "alice", signer |-> TRUE],
                                 [pubkey |-> "pool", signer |-> FALSE]>>,
               instructions |-> <<[programId |-> OtherProgramId, type |-> "swap",
                                   microLamports |-> 0]>>,
               meta |-> None]
      Meta(preT, postT, pre, post) ==
        Some([preTokenBalances |-> Some(preT), postTokenBalances |-> Some(postT),
              preBalances |-> Some(pre), postBalances |-> Some(post),
              fee |-> 5000, computeUnitsConsumed |-> 20000])
  IN  CASE n % 4 = 1 ->
             \* alice buys 2 tokens for 0.5 SOL
             [base EXCEPT !.meta = Meta(TokenEntries("alice", 3000000),
                                        TokenEntries("alice", 5000000),
                                        <<1500000000, 0>>, <<999995000, 0>>)]
        [] n % 4 = 2 ->
             \* alice and bob sign; both sell, with a priority fee
             [base EXCEPT !.accountKeys = <<[pubkey |-> "alice", signer |-> TRUE],
                                            [pubkey |-> "bob", signer |-> TRUE]>>,
                          !.instructions =
                             <<[programId |-> ComputeBudgetProgramId,
                                type |-> "SetComputeUnitPrice",
                                microLamports |-> 50000]>>,
                          !.meta = Meta(TokenEntries("alice", 5000000)
                                          \o TokenEntries("bob", 1000000),
                                        TokenEntries("alice", 3000000),
                                        <<1000000000, 1000000000>>,
                                        <<1499994000, 1249994000>>)]
        [] n % 4 = 3 ->
             \* no native-currency delta once the fee is added back
             [base EXCEPT !.meta = Meta(TokenEntries("alice", 1000000),
                                        TokenEntries("alice", 4000000),
                                        <<1000000000, 0>>, <<999995000, 0>>)]
        [] OTHER -> base

\* solanaConnection.getParsedTransactions(signatures, ...) when it answers:
\* one entry per signature, its body, or null (<<>>) for a signature the
\* provider cannot resolve; un is the set of the positions it cannot resolve
getParsedTransactions(signatures, un) ==
  [i \in 1..Len(signatures) |->
     IF (signatures[i] % SigStride) \in un THEN None
     ELSE Some(TxOf(signatures[i]))]

(***************************************************************************)
(* The pure steps of the pipeline                                          *)
(***************************************************************************)
\* getPoolInfo, given the registry's answer
getPoolInfoLastListed(mint, poolInfo) ==
  IF Len(poolInfo.data) = 0
  THEN Pda("bonding-curve", mint, PUMPFUN_PROGRAM)
  ELSE Key(poolInfo.data[Len(poolInfo.data)].id)
getPoolInfo(mint, poolInfo) ==
  IF Len(poolInfo.data) = 0
  THEN Pda("bonding-curve", mint, PUMPFUN_PROGRAM)
  ELSE Key(poolInfo.data[1].id)

\* params = {...(lastSignature && {until: lastSignature})}
UntilParam(lastSignature) == lastSignature

\* {...params, before}: the until option of the later page requests
NextUntilParamDropped(lastSignature) == 0
NextUntilParam(lastSignature) == UntilParam(lastSignature)

\* before: current[current.length - 1].signature
BeforeParamFirst(page) == page[1].signature
BeforeParam(page) == page[Len(page)].signature

\* let priceHistory: ParsedTokenHistory[] = []
FreshPriceHistoryStale(old) == old
FreshPriceHistory(old) == <<>>

\* array.slice(0, n)
SliceWhole(seq, n) == seq
Slice(seq, n) == SubSeq(seq, 1, Min(n, Len(seq)))

\* transactions.filter((transaction) => transaction.err === null)
SuccessfullTransactionsUnfiltered(transactions) == transactions
SuccessfullTransactions(transactions) ==
  SelectSeq(transactions, LAMBDA t : t.err = None)

\* getTokenPoolInfo: .slice(0, 5000) of the walk, then the filter
FilterThenCap(walked) == Slice(SuccessfullTransactions(walked), SLICE_CAP)
CapThenFilter(walked) == SuccessfullTransactions(Slice(walked, SLICE_CAP))

\* the for loop that cuts successfullTransactions into batches
Batches(seq) ==
  LET RECURSIVE From(_)
      From(i) == IF i > Len(seq) THEN <<>>
                 ELSE <<SubSeq(seq, i, Min(i + BATCH_SIZE - 1, Len(seq)))>>
                        \o From(i + BATCH_SIZE)
  IN  From(1)

\* tx.forEach((transaction) => { if (transaction) transactions.push(...) })
NonNullOrNothing(response) ==
  IF \E i \in 1..Len(response) : response[i] = None THEN <<>>
  ELSE [i \in 1..Len(response) |-> response[i][1]]
NonNull(response) ==
  LET RECURSIVE From(_)
      From(i) == IF i > Len(response) THEN <<>>
                 ELSE response[i] \o From(i + 1)
  IN  From(1)

\* processTransactionBatch after the fetch: the trades of the bodies, in order
PricesOf(parsedTransactions, mint) ==
  LET RECURSIVE From(_)
      From(i) == IF i > Len(parsedTransactions) THEN <<>>
                 ELSE computeTokenPrice(parsedTransactions[i], mint) \o From(i + 1)
  IN  From(1)

\* the rows PriceHistory.create stores for one agent's history
RowsOf(agent, history) ==
  [i \in 1..Len(history) |->
     [price |-> history[i].price, blockTime |-> history[i].date,
      agentId |-> agent.id, signature |-> history[i].signature]]

(***************************************************************************)
(* State                                                                   *)
(***************************************************************************)
VARIABLES
  registry,       \* the venue registry's listing (remote, unchanged by a run)
  failed,         \* positions of the failed transactions in a venue's history
  unresolved,     \* positions of the transactions the provider cannot resolve
  agents,         \* getAgents(): sequence of [id, mint, lastSignature]
  agentIdx,       \* position of syncAgentTransactionHistory's for loop
  pc,             \* where the driver and the pipeline are
  error,          \* the call whose error rejected the driver ("" for none)
  rows,           \* the PriceHistory rows created so far
  returned,       \* per finished agent, what getHistoricalTransactionData returned
  poolPublicKey,  \* getTokenPoolInfo: the resolved venue
  current,        \* getAllTransactionsUntilLastSignature: the last page
  allSignatures,  \* getAllTransactionsUntilLastSignature: the pages so far
  pages,          \* observation: the page requests made by this walk
  batches,        \* getTokenPoolInfo: the batches
  batchIdx,       \* getTokenPoolInfo: position of the for loop over batches
  priceHistory,   \* getTokenPoolInfo: the trades so far
  retries,        \* getTransactionsWithRetries: retries
  transactions,   \* getTransactionsWithRetries: transactions
  attempts,       \* observation: failed attempts of the current batch so far
  outcomes,       \* observation: per finished batch of this run, how its fetch ended
  inFlight,       \* provider requests sent and not answered yet
  since,          \* what came last: a provider's answer or a pause (its kind)
  tx,             \* SpecPrice: the transaction handed to computeTokenPrice
  priced          \* SpecPrice: what computeTokenPrice returned for it

vars == <<registry, failed, unresolved, agents, agentIdx, pc, error, rows, returned, poolPublicKey,
          current, allSignatures, pages, batches, batchIdx, priceHistory,
          retries, transactions, attempts, outcomes, inFlight, since, tx, priced>>

remoteVars == <<registry, failed, unresolved, agents>>
walkVars == <<current, allSignatures, pages>>
batchVars == <<batches, batchIdx, priceHistory>>
fetchVars == <<retries, transactions, attempts>>
paceVars == <<inFlight, since>>
priceVars == <<tx, priced>>

\* no cursor: getLastSignature found no row
NoSignature == 0

Agent == agents[agentIdx]

\* the cursors an agent may have stored: none, or a signature of the
\* bonding curve of its mint
Cursors(mint) ==
  {NoSignature} \cup
  { VenueHistory(Pda("bonding-curve", mint, PUMPFUN_PROGRAM), {})[i].signature :
      i \in {HistLen - 1} }

AgentRecords ==
  { [id |-> i, mint |-> m, lastSignature |-> c] :
      i \in AgentIds, m \in Mints, c \in 0..(SigStride * (Cardinality(Mints) + 1)) }

AgentLists ==
  { a \in [AgentIds -> { r \in AgentRecords : r.lastSignature \in Cursors(r.mint) }] :
      \A i \in AgentIds : a[i].id = i }

NoKey == Key(0)
NoTx == TxOf(0)

Init ==
  /\ registry \in RegistryStates
  /\ failed \in { f \in SUBSET (1..HistLen) : Cardinality(f) <= 1 }
  /\ unresolved \in { u \in SUBSET (1..HistLen) :
                        Cardinality(u) <= 1 /\ (failed # {} => u = {}) }
  /\ agents \in AgentLists
  /\ agentIdx = 1
  /\ pc = "sync"
  /\ error = ""
  /\ rows = <<>>
  /\ returned = <<>>
  /\ poolPublicKey = NoKey
  /\ current = <<>>
  /\ allSignatures = <<>>
  /\ pages = <<>>
  /\ batches = <<>>
  /\ batchIdx = 1
  /\ priceHistory = <<>>
  /\ retries = 0
  /\ transactions = <<>>
  /\ attempts = 0
  /\ outcomes = <<>>
  /\ inFlight = 0
  /\ since = "none"
  /\ tx = NoTx
  /\ priced = <<>>

(***************************************************************************)
(* syncAgentTransactionHistory                                             *)
(***************************************************************************)
\* for (const agent of agents): the next agent; getLastSignature and the
\* call of getHistoricalTransactionData, which calls getTokenPoolInfo
SyncNext ==
  /\ pc = "sync"
  /\ agentIdx <= Len(agents)
  /\ pc' = "getPoolInfo"
  /\ UNCHANGED <<remoteVars, error, agentIdx, rows, returned, poolPublicKey, walkVars,
                 batchVars, fetchVars, outcomes, paceVars, priceVars>>

\* the loop is over: the promise of syncAgentTransactionHistory resolves
SyncDone ==
  /\ pc = "sync"
  /\ agentIdx > Len(agents)
  /\ pc' = "done"
  /\ UNCHANGED <<remoteVars, error, agentIdx, rows, returned, poolPublicKey, walkVars,
                 batchVars, fetchVars, outcomes, paceVars, priceVars>>

\* await: the caller goes on only when the request it sent has been
\* answered, so it sends the next one with none in flight
AwaitedNever(n) == TRUE
Awaited(n) == n = 0

\* a request is sent to a provider
Sent ==
  /\ Awaited(inFlight)
  /\ inFlight < MaxInFlight
  /\ inFlight' = inFlight + 1
  /\ UNCHANGED since

\* the provider answers a request, with a value or with an error
Answered ==
  /\ inFlight > 0
  /\ inFlight' = inFlight - 1
  /\ since' = "answer"

\* An error thrown by an awaited call that no try block encloses rejects
\* getTokenPoolInfo, getHistoricalTransactionData and then
\* syncAgentTransactionHistory itself: the loop over the agents ends.
Reject(call) ==
  /\ Answered
  /\ pc' = "rejected"
  /\ error' = call
  /\ UNCHANGED <<remoteVars, agentIdx, rows, returned, poolPublicKey, walkVars,
                 batchVars, fetchVars, outcomes, priceVars>>

(***************************************************************************)
(* getPoolInfo                                                             *)
(***************************************************************************)
\* raydium.api.fetchPoolByMints is called
RequestPool ==
  /\ pc = "getPoolInfo"
  /\ Sent
  /\ UNCHANGED <<remoteVars, error, agentIdx, pc, rows, returned, poolPublicKey, walkVars,
                 batchVars, fetchVars, outcomes, priceVars>>

\* it answers
GetPoolInfo ==
  /\ pc = "getPoolInfo"
  /\ Answered
  /\ poolPublicKey' =
       getPoolInfo(Agent.mint, fetchPoolByMints(registry, Agent.mint, NATIVE_MINT))
  /\ pc' = "walkFirst"
  /\ UNCHANGED <<remoteVars, error, agentIdx, rows, returned, walkVars, batchVars,
                 fetchVars, outcomes, priceVars>>

\* raydium.api.fetchPoolByMints throws
GetPoolInfoThrows ==
  /\ pc = "getPoolInfo"
  /\ Reject("fetchPoolByMints")

(***************************************************************************)
(* getAllTransactionsUntilLastSignature                                    *)
(***************************************************************************)
History == VenueHistory(poolPublicKey, failed)

\* solanaConnection.getSignaturesForAddress is called: the request before
\* the loop, or the one of a turn of while (current.length > 0)
RequestPage ==
  /\ pc \in {"walkFirst", "walk"}
  /\ pc = "walk" => Len(current) > 0
  /\ Sent
  /\ UNCHANGED <<remoteVars, error, agentIdx, pc, rows, returned, poolPublicKey, walkVars,
                 batchVars, fetchVars, outcomes, priceVars>>

\* the first request, with params only, is answered
WalkFirst ==
  /\ pc = "walkFirst"
  /\ Answered
  /\ LET page == getSignaturesForAddress(History, UntilParam(Agent.lastSignature), 0)
     IN  /\ current' = page
         /\ allSignatures' = page
         /\ pages' = <<[until |-> UntilParam(Agent.lastSignature), before |-> 0,
                        page |-> page]>>
  /\ pc' = "walk"
  /\ UNCHANGED <<remoteVars, error, agentIdx, rows, returned, poolPublicKey, batchVars,
                 fetchVars, outcomes, priceVars>>

\* await new Promise((resolve) => setTimeout(resolve, 1000)) of the walk
InterPagePause == "interPage"

\* one turn of while (current.length > 0): the request is answered, the
\* push, the pause
WalkNext ==
  /\ pc = "walk"
  /\ Len(current) > 0
  /\ inFlight > 0
  /\ inFlight' = inFlight - 1
  /\ since' = InterPagePause
  /\ LET until == NextUntilParam(Agent.lastSignature)
         before == BeforeParam(current)
         page == getSignaturesForAddress(History, until, before)
     IN  /\ current' = page
         /\ allSignatures' = allSignatures \o page
         /\ pages' = Append(pages, [until |-> until, before |-> before, page |-> page])
  /\ UNCHANGED <<remoteVars, error, agentIdx, pc, rows, returned, poolPublicKey, batchVars,
                 fetchVars, outcomes, priceVars>>

\* solanaConnection.getSignaturesForAddress throws
WalkThrows ==
  /\ pc \in {"walkFirst", "walk"}
  /\ pc = "walk" => Len(current) > 0
  /\ Reject("getSignaturesForAddress")

(***************************************************************************)
(* getTokenPoolInfo                                                        *)
(***************************************************************************)
\* the walk returns; the slice, the filter and the batches
WalkReturn ==
  /\ pc = "walk"
  /\ Len(current) = 0
  /\ batches' = Batches(CapThenFilter(allSignatures))
  /\ batchIdx' = 1
  /\ priceHistory' = FreshPriceHistory(priceHistory)
  /\ outcomes' = <<>>
  /\ pc' = "batches"
  /\ UNCHANGED <<remoteVars, error, agentIdx, rows, returned, poolPublicKey, walkVars,
                 fetchVars, paceVars, priceVars>>

\* await new Promise((resolve) => setTimeout(resolve, 1000)) of the batches
InterBatchPause == "interBatch"

\* for (const batch of batches): the pause, then processTransactionBatch,
\* which calls getTransactionsWithRetries
BatchNext ==
  /\ pc = "batches"
  /\ batchIdx <= Len(batches)
  /\ retries' = 0
  /\ transactions' = <<>>
  /\ attempts' = 0
  /\ since' = InterBatchPause
  /\ pc' = "fetch"
  /\ UNCHANGED <<remoteVars, error, agentIdx, rows, returned, poolPublicKey, walkVars,
                 batchVars, outcomes, inFlight, priceVars>>

\* return priceHistory, and the rest of the driver's loop body: one
\* PriceHistory.create per item
BatchesDone ==
  /\ pc = "batches"
  /\ batchIdx > Len(batches)
  /\ rows' = rows \o RowsOf(Agent, priceHistory)
  /\ returned' = Append(returned, [agent |-> Agent, pool |-> poolPublicKey,
                                   walked |-> allSignatures, batches |-> batches,
                                   history |-> priceHistory, outcomes |-> outcomes])
  /\ agentIdx' = agentIdx + 1
  /\ pc' = "sync"
  /\ retries' = 0
  /\ transactions' = <<>>
  /\ attempts' = 0
  /\ UNCHANGED <<remoteVars, error, poolPublicKey, walkVars, batchVars, outcomes,
                 paceVars, priceVars>>

(***************************************************************************)
(* getTransactionsWithRetries and processTransactionBatch                  *)
(***************************************************************************)
\* while (retries < 5)
MayRetryOnceMore(r) == r <= MaxRetries
MayRetry(r) == r < MaxRetries

\* the catch block swallows the error: after the loop the function returns
\* transactions and the caller goes on to where it was going
AfterCatchRethrow(next) == "rejected"
AfterCatch(next) == next

\* getTransactionsWithRetries returns trans; processTransactionBatch prices
\* the bodies and getTokenPoolInfo pushes the trades
FetchReturns(trans, ok, response) ==
  /\ priceHistory' = priceHistory \o PricesOf(trans, Agent.mint)
  /\ outcomes' = Append(outcomes, [batch |-> batches[batchIdx], ok |-> ok,
                                   response |-> response, transactions |-> trans])
  /\ batchIdx' = batchIdx + 1

\* the catch block's await new Promise((resolve) => setTimeout(resolve, 1000))
BackoffSkipped(before) == before
Backoff(before) == "backoff"

\* solanaConnection.getParsedTransactions is called for the batch
RequestBodies ==
  /\ pc = "fetch"
  /\ MayRetry(retries)
  /\ Sent
  /\ UNCHANGED <<remoteVars, error, agentIdx, pc, rows, returned, poolPublicKey, walkVars,
                 batchVars, fetchVars, outcomes, priceVars>>

\* an attempt that answers: the non-null entries are pushed; break; the
\* function returns and its locals are gone
FetchOk ==
  /\ pc = "fetch"
  /\ MayRetry(retries)
  /\ Answered
  /\ LET signatures == [i \in 1..Len(batches[batchIdx]) |->
                           batches[batchIdx][i].signature]
         response == getParsedTransactions(signatures, unresolved)
     IN  FetchReturns(transactions \o NonNull(response), TRUE, response)
  /\ retries' = 0
  /\ transactions' = <<>>
  /\ attempts' = 0
  /\ pc' = "batches"
  /\ UNCHANGED <<remoteVars, error, agentIdx, rows, returned, poolPublicKey,
                 walkVars, batches, priceVars>>

\* an attempt that throws: logged, the backoff, retries++; the loop goes on
FetchThrows ==
  /\ pc = "fetch"
  /\ MayRetry(retries)
  /\ MayRetry(retries + 1)
  /\ inFlight > 0
  /\ inFlight' = inFlight - 1
  /\ since' = Backoff("answer")
  /\ retries' = retries + 1
  /\ attempts' = attempts + 1
  /\ pc' = AfterCatch("fetch")
  /\ error' = IF pc' = "rejected" THEN "getParsedTransactions" ELSE error
  /\ UNCHANGED <<remoteVars, agentIdx, rows, returned, poolPublicKey, walkVars,
                 batchVars, transactions, outcomes, priceVars>>

\* the last attempt throws: the loop ends and transactions is returned
FetchExhausted ==
  /\ pc = "fetch"
  /\ MayRetry(retries)
  /\ ~MayRetry(retries + 1)
  /\ inFlight > 0
  /\ inFlight' = inFlight - 1
  /\ since' = Backoff("answer")
  /\ FetchReturns(transactions, FALSE, <<>>)
  /\ retries' = 0
  /\ transactions' = <<>>
  /\ attempts' = 0
  /\ pc' = AfterCatch("batches")
  /\ error' = IF pc' = "rejected" THEN "getParsedTransactions" ELSE error
  /\ UNCHANGED <<remoteVars, agentIdx, rows, returned, poolPublicKey, walkVars,
                 batches, priceVars>>

Next ==
  \/ SyncNext
  \/ SyncDone
  \/ RequestPool
  \/ GetPoolInfo
  \/ GetPoolInfoThrows
  \/ RequestPage
  \/ WalkFirst
  \/ WalkNext
  \/ WalkThrows
  \/ WalkReturn
  \/ BatchNext
  \/ BatchesDone
  \/ RequestBodies
  \/ FetchThrows
  \/ FetchExhausted
  \/ FetchOk

Spec == Init /\ [][Next]_vars

\* Every provider call eventually returns or fails and the event loop runs a
\* continuation once its promise has settled: a step that can be taken is
\* eventually taken.
FairSpec == Init /\ [][Next]_vars /\ WF_vars(Next)

(***************************************************************************)
(* computeTokenPrice on its own: the transactions it is applied to         *)
(***************************************************************************)
\* micro-units of the asset a snapshot may hold for a signer (-1: no entry)
Amounts == {-1, 0, 3000000, 5000000}
\* lamports a signer may hold after the transaction, before the fees are
\* added back
PostLamports == {999995000, 999994000, 1499994000}

Entries(owner, amount) ==
  IF amount < 0 THEN <<>> ELSE <<[owner |-> owner, mint |-> 1, amount |-> amount]>>

\* the compute-budget instructions a transaction may carry
Budgets == {"none", "limit", "price", "oddPrice", "foreign"}

Swap == [programId |-> OtherProgramId, type |-> "swap", microLamports |-> 0]

InstructionsOf(budget) ==
  CASE budget = "limit" ->
         <<[programId |-> ComputeBudgetProgramId, type |-> "SetComputeUnitLimit",
            microLamports |-> 0], Swap>>
    [] budget = "price" ->
         <<[programId |-> ComputeBudgetProgramId, type |-> "SetComputeUnitLimit",
            microLamports |-> 0],
           [programId |-> ComputeBudgetProgramId, type |-> "SetComputeUnitPrice",
            microLamports |-> 50000], Swap>>
    [] budget = "oddPrice" ->
         <<[programId |-> ComputeBudgetProgramId, type |-> "SetComputeUnitPrice",
            microLamports |-> 100040], Swap>>
    [] budget = "foreign" ->
         \* the same instruction data, addressed to another program
         <<[programId |-> OtherProgramId, type |-> "SetComputeUnitPrice",
            microLamports |-> 50000], Swap>>
    [] OTHER -> <<Swap>>

\* shape: which of the snapshots the transaction carries; alice and bob
\* sign, the pool does not
PriceTx(pre, post, postLamports, budget, shape) ==
  [signature |-> 7,
   blockTime |-> IF shape = "noBlockTime" THEN 0 ELSE 1700000007,
   accountKeys |-> <<[pubkey |-> "alice", signer |-> TRUE],
                     [pubkey |-> "pool", signer |-> FALSE],
                     [pubkey |-> "bob", signer |-> TRUE]>>,
   instructions |-> InstructionsOf(budget),
   meta |->
     IF shape = "noMeta" THEN None
     ELSE Some(
       [preTokenBalances |-> IF shape = "noPreTokenBalances" THEN None
                             ELSE Some(Entries("pool", 5000000)
                                       \o Entries("alice", pre)
                                       \o Entries("bob", 3000000)),
        postTokenBalances |-> IF shape = "noPostTokenBalances" THEN None
                              ELSE Some(Entries("pool", 3000000)
                                        \o Entries("alice", post)
                                        \o Entries("bob", IF shape = "bobMoved"
                                                          THEN 5000000 ELSE 3000000)),
        preBalances |-> IF shape = "noPreBalances" THEN None
                        ELSE IF shape = "shortPreBalances" THEN Some(<<>>)
                        ELSE Some(<<1000000000, 0, 1000000000>>),
        postBalances |-> IF shape = "noPostBalances" THEN None
                         ELSE Some(<<postLamports, 0, 1000000000>>),
        fee |-> 5000,
        computeUnitsConsumed |-> 20000])]

\* the shapes that lack a snapshot, the block time or a balance
Shapes == {"noMeta", "noBlockTime", "noPreTokenBalances",
           "noPostTokenBalances", "noPreBalances", "noPostBalances",
           "shortPreBalances"}

PriceTxs ==
  { PriceTx(pre, post, pl, b, sh) :
      pre \in Amounts, post \in Amounts, pl \in PostLamports,
      b \in Budgets, sh \in {"full", "bobMoved"} }
  \cup { PriceTx(3000000, 5000000, 999995000, "price", sh) : sh \in Shapes }

InitPrice ==
  /\ registry = <<>>
  /\ failed = {}
  /\ unresolved = {}
  /\ agents = <<>>
  /\ agentIdx = 1
  /\ pc = "price"
  /\ error = ""
  /\ rows = <<>>
  /\ returned = <<>>
  /\ poolPublicKey = NoKey
  /\ current = <<>>
  /\ allSignatures = <<>>
  /\ pages = <<>>
  /\ batches = <<>>
  /\ batchIdx = 1
  /\ priceHistory = <<>>
  /\ retries = 0
  /\ transactions = <<>>
  /\ attempts = 0
  /\ outcomes = <<>>
  /\ inFlight = 0
  /\ since = "none"
  /\ tx \in PriceTxs
  /\ priced = <<>>

pipelineVars == <<remoteVars, agentIdx, pc, error, rows, returned, poolPublicKey,
                  walkVars, batchVars, fetchVars, outcomes, paceVars>>

\* what pricing a transaction leaves alone
priceInputVars == <<remoteVars, agentIdx, error, rows, returned, poolPublicKey,
                    walkVars, batchVars, fetchVars, outcomes, paceVars>>

\* computeTokenPrice(tx, mint) for the asset of the snapshots
Price ==
  /\ pc = "price"
  /\ priced' = computeTokenPrice(tx, 1)
  /\ pc' = "priced"
  /\ UNCHANGED <<priceInputVars, tx>>

\* the next transaction
NextTx ==
  /\ pc = "priced"
  /\ tx' \in PriceTxs
  /\ priced' = <<>>
  /\ pc' = "price"
  /\ UNCHANGED priceInputVars

NextPrice == Price \/ NextTx

SpecPrice == InitPrice /\ [][NextPrice]_vars

(***************************************************************************)
(* Properties                                                              *)
(***************************************************************************)
Range(seq) == { seq[i] : i \in 1..Len(seq) }
InRun == pc \in {"walk", "batches", "fetch"}
Walked == pc \in {"batches", "fetch"}

\* C1: every trade computeTokenPrice emits carries a finite, non-negative
\* price, and the price is exactly 0 when the native-currency delta is zero
\* or the quotient is NaN or infinite.
C1_PriceFiniteNonNegative ==
  \A t \in Range(priced) :
    LET quotient == Div(MathAbs(Sub(t.preTokenBalance, t.postTokenBalance)),
                        MathAbs(Sub(t.preSolBalance, t.postSolBalance)))
    IN  /\ IsNum(t.price)
        /\ t.price.num >= 0
        /\ (t.preSolBalance = t.postSolBalance \/ ~IsNum(quotient)) => t.price = Zero

\* a trade whose asset balance moved while the fee-adjusted native balance
\* did not
C1_Witness ==
  \E t \in Range(priced) :
    /\ IsNum(t.preSolBalance)
    /\ t.preSolBalance = t.postSolBalance
    /\ t.preTokenBalance # t.postTokenBalance
    /\ t.price = Zero

\* C2: a batch's fetch makes at most 5 attempts, retries on every error of
\* the request (none escapes), ends with its first successful attempt, and
\* returns the empty sequence when all 5 attempts failed.  In a state at
\* "fetch" with a request in flight the attempt numbered attempts + 1 is
\* being made.
C2_Attempt ==
  (pc = "fetch" /\ inFlight > 0) =>
    /\ attempts < MaxRetries
    /\ attempts = retries
    /\ pc' \in {"fetch", "batches"}
    /\ pc' = "fetch" => (attempts' = attempts + 1 /\ outcomes' = outcomes)
    /\ pc' = "batches" =>
         LET o == outcomes'[Len(outcomes')]
         IN  /\ Len(outcomes') = Len(outcomes) + 1
             /\ ~o.ok => (attempts + 1 = MaxRetries /\ o.transactions = <<>>)

C2_BoundedRetries == [][C2_Attempt]_vars

\* a fetch that has just ended by exhausting its attempts
C2_Witness ==
  /\ pc = "batches"
  /\ outcomes # <<>>
  /\ ~outcomes[Len(outcomes)].ok

\* the trades of the batches whose fetch succeeded, in batch order
RECURSIVE TradesOfOutcomes(_, _)
TradesOfOutcomes(os, mint) ==
  IF os = <<>> THEN <<>>
  ELSE LET bodies == SelectSeq(Head(os).response, LAMBDA e : e # None)
           RECURSIVE Trades(_)
           Trades(i) == IF i > Len(bodies) THEN <<>>
                        ELSE computeTokenPrice(bodies[i][1], mint) \o Trades(i + 1)
       IN  Trades(1) \o TradesOfOutcomes(Tail(os), mint)

\* C3: a batch whose fetch exhausts its retries does not abort the run:
\* the run is never rejected out of a fetch, every batch of a returned run
\* was dispatched, and the returned sequence holds the trades of all the
\* batches that were fetched.
C3_ExhaustionNeverAborts ==
  /\ pc = "rejected" => attempts = 0
  /\ \A r \in Range(returned) :
       /\ Len(r.outcomes) = Len(r.batches)
       /\ \A k \in 1..Len(r.batches) : r.outcomes[k].batch = r.batches[k]
       /\ r.history = TradesOfOutcomes(r.outcomes, r.agent.mint)

\* a returned run whose first batch exhausted its retries and whose second
\* batch gave trades
C3_Witness ==
  \E r \in Range(returned) :
    /\ Len(r.outcomes) >= 2
    /\ ~r.outcomes[1].ok
    /\ r.outcomes[2].ok
    /\ r.history # <<>>

\* C4: no error inside the pipeline of one asset aborts the sibling assets:
\* syncAgentTransactionHistory is never rejected, and when it ends every
\* agent has been synced.
C4_NoErrorAbortsSiblings ==
  /\ pc # "rejected"
  /\ pc \in {"done", "rejected"} => Len(returned) = Len(agents)

\* C5: venue resolution never fails: an error of the registry lookup is
\* treated as "no listing" and never rejects the run.
C5_VenueResolutionNeverFails ==
  error # "fetchPoolByMints"

\* C6: with a cursor, no record of any page of the walk, hence none that is
\* batched, fetched or priced, is the cursor's transaction or an older one.
C6_NothingAtOrOlderThanCursor ==
  (InRun /\ Agent.lastSignature # NoSignature) =>
    /\ \A r \in Range(allSignatures) : r.signature > Agent.lastSignature
    /\ \A p \in Range(pages) :
         \A r \in Range(p.page) : r.signature > Agent.lastSignature
    /\ Walked =>
         /\ \A b \in Range(batches) :
              \A r \in Range(b) : r.signature > Agent.lastSignature
         /\ \A t \in Range(priceHistory) : t.signature > Agent.lastSignature

\* a walk of at least two requests that returned records, over a history
\* that holds the cursor's transaction
C6_Witness ==
  /\ Walked
  /\ Agent.lastSignature # NoSignature
  /\ Len(pages) >= 2
  /\ allSignatures # <<>>
  /\ \E r \in Range(History) : r.signature = Agent.lastSignature

\* the records of the venue's history newer than the cursor, newest first
NewerThanCursor ==
  SelectSeq(History, LAMBDA r : \/ Agent.lastSignature = NoSignature
                                \/ r.signature > Agent.lastSignature)

RECURSIVE ConcatPages(_)
ConcatPages(ps) ==
  IF ps = <<>> THEN <<>> ELSE Head(ps).page \o ConcatPages(Tail(ps))

\* C7: the walked sequence is strictly ordered newest to oldest, so without
\* duplicates, and has no gaps; each page after the first is requested
\* before the oldest signature of the page before it, and the pages are
\* appended in request order.
C7_WalkOrderedNoGaps ==
  InRun =>
    /\ \A i \in 1..(Len(allSignatures) - 1) :
         allSignatures[i].signature > allSignatures[i + 1].signature
    /\ \A k \in 2..Len(pages) :
         /\ pages[k - 1].page # <<>>
         /\ pages[k].before = pages[k - 1].page[Len(pages[k - 1].page)].signature
    /\ allSignatures = ConcatPages(pages)
    /\ allSignatures = SubSeq(NewerThanCursor, 1, Len(allSignatures))
    /\ Walked => allSignatures = NewerThanCursor

\* a finished walk of three requests or more, two of them with records
C7_Witness ==
  /\ Walked
  /\ Len(pages) >= 3
  /\ pages[2].page # <<>>

\* C8: no record whose err is not null is in a batch handed to the fetcher,
\* and no trade is derived from a failed transaction.
C8_NoFailedForwarded ==
  /\ \A b \in Range(batches) : \A r \in Range(b) : r.err = None
  /\ \A o \in Range(outcomes) : \A r \in Range(o.batch) : r.err = None
  /\ \A t \in Range(priceHistory) : (t.signature % SigStride) \notin failed

\* a run that walked a failed transaction within the cap and has trades
C8_Witness ==
  /\ Walked
  /\ \E r \in Range(Slice(allSignatures, SLICE_CAP)) : r.err # None
  /\ batches # <<>>
  /\ priceHistory # <<>>

\* how the fetches of a run ended: per batch, answered or exhausted
FetchEnds(os) == [k \in 1..Len(os) |-> os[k].ok]

SameCall(i, j) ==
  /\ returned[i].agent.mint = returned[j].agent.mint
  /\ returned[i].agent.lastSignature = returned[j].agent.lastSignature

\* C9 as stated: two runs for the same asset with the same cursor against
\* the unchanged remote history return the same sequence.
C9_SameOutputTwice ==
  \A i, j \in 1..Len(returned) :
    SameCall(i, j) => returned[i].history = returned[j].history

\* C9: two runs for the same asset with the same cursor against the
\* unchanged remote history return the same sequence whenever the fetch of
\* every batch ends alike in both (answered in both, or exhausted in both).
C9_SameOutputWhenFetchesEndAlike ==
  \A i, j \in 1..Len(returned) :
    (SameCall(i, j) /\ FetchEnds(returned[i].outcomes) = FetchEnds(returned[j].outcomes))
      => returned[i].history = returned[j].history

\* two runs of the same call whose fetches ended alike and gave trades
C9_Witness ==
  \E i, j \in 1..Len(returned) :
    /\ i < j
    /\ SameCall(i, j)
    /\ FetchEnds(returned[i].outcomes) = FetchEnds(returned[j].outcomes)
    /\ returned[i].history # <<>>

\* C10: the fetcher's output is exactly the non-null entries of the
\* successful response, in order, so no longer than the batch; the trades of
\* every resolved signature are emitted whatever entries are null.
C10_NonNullEntriesKept ==
  Walked =>
    \A o \in Range(outcomes) :
      o.ok =>
        LET bodies == SelectSeq(o.response, LAMBDA e : e # None)
        IN  /\ Len(o.transactions) <= Len(o.batch)
            /\ Len(o.transactions) = Len(bodies)
            /\ \A i \in 1..Len(bodies) : o.transactions[i] = bodies[i][1]
            /\ \A i \in 1..Len(bodies) :
                 Range(computeTokenPrice(bodies[i][1], Agent.mint))
                   \subseteq Range(priceHistory)

\* a batch of two whose response has a null entry and a body with trades
C10_Witness ==
  /\ Walked
  /\ \E o \in Range(outcomes) :
       /\ o.ok
       /\ Len(o.batch) >= 2
       /\ \E i \in 1..Len(o.response) : o.response[i] = None
       /\ \E i \in 1..Len(o.response) :
            /\ o.response[i] # None
            /\ computeTokenPrice(o.response[i][1], Agent.mint) # <<>>

(***************************************************************************)
(* Pricing one transaction, read against the raw transaction               *)
(***************************************************************************)
\* the raw amount of the first entry of a snapshot for an owner and the
\* mint priced (1), 0 when the snapshot has no such entry
RawAmount(entries, owner) ==
  LET hits == { i \in 1..Len(entries) :
                  entries[i].owner = owner /\ entries[i].mint = 1 }
  IN  IF hits = {} THEN 0
      ELSE entries[CHOOSE i \in hits : \A j \in hits : i <= j].amount

KeyIndex(owner) ==
  CHOOSE i \in 1..Len(tx.accountKeys) : tx.accountKeys[i].pubkey = owner

CarriesSnapshots ==
  /\ tx.meta # None
  /\ \A f \in {"preTokenBalances", "postTokenBalances", "preBalances", "postBalances"} :
       tx.meta[1][f] # None
  /\ tx.blockTime # 0

RawPre(owner) == RawAmount(tx.meta[1].preTokenBalances[1], owner)
RawPost(owner) == RawAmount(tx.meta[1].postTokenBalances[1], owner)

RecordsOf(owner) == { j \in 1..Len(priced) : priced[j].owner = owner }

\* floor(compute units consumed * micro-lamport price / 1,000,000), the
\* price read off the transaction's instructions
ExpectedPriorityFee ==
  LET setPrice == { i \in 1..Len(tx.instructions) :
                      /\ tx.instructions[i].programId = ComputeBudgetProgramId
                      /\ tx.instructions[i].type = "SetComputeUnitPrice" }
      last == CHOOSE i \in setPrice : \A j \in setPrice : j <= i
  IN  IF setPrice = {} THEN 0
      ELSE (tx.meta[1].computeUnitsConsumed * tx.instructions[last].microLamports)
             \div 1000000

\* raw post-transaction lamports of an owner plus base fee plus priority fee
AdjustedPostLamports(owner) ==
  tx.meta[1].postBalances[1][KeyIndex(owner)] + tx.meta[1].fee + ExpectedPriorityFee

\* C11: computeTokenPrice emits exactly one record for every signer whose
\* asset balance for the mint differs between the two snapshots (an absent
\* entry counting as 0), provided the transaction carries both asset
\* snapshots, both native-balance snapshots and a block time; it emits no
\* record for anyone else, and none at all when one of those is missing.
C11_OneRecordPerMovedSigner ==
  pc = "priced" =>
    /\ \A t \in Range(priced) :
         \E i \in 1..Len(tx.accountKeys) : tx.accountKeys[i].pubkey = t.owner
    /\ \A i \in 1..Len(tx.accountKeys) :
         LET k == tx.accountKeys[i]
         IN  Cardinality(RecordsOf(k.pubkey)) =
               IF CarriesSnapshots /\ k.signer /\ RawPre(k.pubkey) # RawPost(k.pubkey)
               THEN 1 ELSE 0

\* two signers whose balances moved, next to a non-signer whose balance
\* moved as well
C11_Witness ==
  /\ pc = "priced"
  /\ CarriesSnapshots
  /\ Len(priced) = 2
  /\ RecordsOf("alice") # {} /\ RecordsOf("bob") # {}
  /\ RawPre("pool") # RawPost("pool")

\* C12: a record is a 'sell' exactly when its signer's post-transaction
\* asset balance is strictly below the pre-transaction one and a 'buy'
\* otherwise, and no record has equal balances.
C12_SellIffBalanceFell ==
  pc = "priced" =>
    \A t \in Range(priced) :
      /\ RawPre(t.owner) # RawPost(t.owner)
      /\ t.preTokenBalance # t.postTokenBalance
      /\ t.type = IF RawPost(t.owner) < RawPre(t.owner) THEN "sell" ELSE "buy"

\* one transaction with a seller and a buyer
C12_Witness ==
  /\ pc = "priced"
  /\ \E t \in Range(priced) : t.type = "sell" /\ RawPost(t.owner) < RawPre(t.owner)
  /\ \E t \in Range(priced) : t.type = "buy" /\ RawPost(t.owner) > RawPre(t.owner)

\* C13: when the native delta is not zero, the price is the absolute asset
\* delta over the absolute native delta, the post-transaction native balance
\* being the raw one plus base fee plus priority fee; an asset balance going
\* 5.0 -> 3.0 with a native balance going 1.0 -> 1.5 (fee-adjusted) is a
\* 'sell' at price 4.0.
C13_PriceIsAssetOverNativeDelta ==
  pc = "priced" =>
    \A t \in Range(priced) :
      LET i == KeyIndex(t.owner)
          pre == tx.meta[1].preBalances[1]
          assetDelta == Abs(RawPre(t.owner) - RawPost(t.owner))
          nativeDelta == Abs(pre[i] - AdjustedPostLamports(t.owner))
      IN  (i \in 1..Len(pre) /\ nativeDelta # 0) =>
            /\ t.price = Div(Rat(assetDelta, 1000000), Rat(nativeDelta, 1000000000))
            /\ (/\ RawPre(t.owner) = 5000000 /\ RawPost(t.owner) = 3000000
                /\ pre[i] = 1000000000
                /\ AdjustedPostLamports(t.owner) = 1500000000)
                 => t.type = "sell" /\ t.price = [num |-> 4, den |-> 1]

\* the example of the claim, its fees partly base fee, partly priority fee
C13_Witness ==
  /\ pc = "priced"
  /\ \E t \in Range(priced) :
       /\ RawPre(t.owner) = 5000000 /\ RawPost(t.owner) = 3000000
       /\ tx.meta[1].preBalances[1][KeyIndex(t.owner)] = 1000000000
       /\ tx.meta[1].postBalances[1][KeyIndex(t.owner)] < 1500000000
       /\ ExpectedPriorityFee > 0
       /\ AdjustedPostLamports(t.owner) = 1500000000
       /\ t.price = [num |-> 4, den |-> 1]

\* C20: the priority fee added to a signer's post-transaction native balance
\* is floor(compute units consumed * micro-lamport price / 1,000,000), the
\* price being the one set by the 'set compute unit price' instruction
\* addressed to the compute-budget program, and 0 when the transaction has
\* no such instruction.
C20_PriorityFee ==
  pc = "priced" =>
    \A t \in Range(priced) :
      t.postSolBalance = Rat(AdjustedPostLamports(t.owner), 1000000000)

\* a priced trade whose fee product is not a multiple of 1,000,000
C20_Witness ==
  /\ pc = "priced"
  /\ priced # <<>>
  /\ ExpectedPriorityFee > 0
  /\ \E i \in 1..Len(tx.instructions) :
       /\ tx.instructions[i].programId = ComputeBudgetProgramId
       /\ tx.instructions[i].type = "SetComputeUnitPrice"
       /\ (tx.meta[1].computeUnitsConsumed * tx.instructions[i].microLamports)
            % 1000000 # 0

(***************************************************************************)
(* Venue resolution, batching and pacing of a run                          *)
(***************************************************************************)
\* the positions of the registry's pools that pair a mint with the native
\* currency
Listed(mint) ==
  { i \in 1..Len(registry) :
      registry[i].mint1 = mint /\ registry[i].mint2 = NATIVE_MINT }

\* the venue the claim names for a mint under the registry's state
VenueFor(mint) ==
  IF Listed(mint) = {}
  THEN [kind |-> "pda", seed |-> "bonding-curve", key |-> mint,
        program |-> PUMPFUN_PROGRAM]
  ELSE [kind |-> "key", seed |-> "", program |-> "",
        key |-> registry[CHOOSE i \in Listed(mint) : \A j \in Listed(mint) : i <= j].id]

\* C14: whenever the registry lists a pairing of the asset with the native
\* currency, getPoolInfo returns the venue the registry reports (the first
\* one when it reports several); otherwise it returns the address derived
\* from the fixed tag, the asset and the fixed program id.  Under one
\* registry state every call for one asset gives the same address.
C14_VenueOfRegistryOrFallback ==
  /\ pc \in {"walkFirst", "walk", "batches", "fetch"} =>
       poolPublicKey = VenueFor(Agent.mint)
  /\ \A i, j \in 1..Len(returned) :
       returned[i].agent.mint = returned[j].agent.mint =>
         returned[i].pool = returned[j].pool

\* a run on the first of several listed venues after a run on a fallback
\* address
C14_Witness ==
  /\ pc \in {"walkFirst", "walk", "batches", "fetch"}
  /\ Cardinality(Listed(Agent.mint)) >= 2
  /\ poolPublicKey.kind = "key"
  /\ \E i \in 1..Len(returned) :
       /\ Listed(returned[i].agent.mint) = {}
       /\ returned[i].pool.kind = "pda"

\* the records of a sequence of batches, summed
RECURSIVE SumLen(_)
SumLen(bs) == IF bs = <<>> THEN 0 ELSE Len(Head(bs)) + SumLen(Tail(bs))

\* the batches the fetcher has been called with so far in this run
Forwarded == [k \in 1..Len(outcomes) |-> outcomes[k].batch]

\* C16: the records forwarded to the fetcher, summed over the batches of one
\* run, never exceed the cap (5000 in the source, SLICE_CAP here), whatever
\* the length of the walked history.
C16_ForwardedWithinCap ==
  Walked =>
    /\ SumLen(batches) <= SLICE_CAP
    /\ SumLen(Forwarded) <= SLICE_CAP
    /\ \A k \in 1..Len(outcomes) : outcomes[k].batch = batches[k]

\* a walk longer than the cap whose batches have all been fetched
C16_Witness ==
  /\ pc = "batches"
  /\ batchIdx > Len(batches)
  /\ Len(allSignatures) > SLICE_CAP
  /\ Len(outcomes) = Len(batches)
  /\ SumLen(Forwarded) = SLICE_CAP

\* the walk of this run has received its empty page
WalkOver == pages # <<>> /\ pages[Len(pages)].page = <<>>

\* C15: the stages of a run are strictly sequential: at most one provider
\* request is in flight at any time; a request for the bodies of a batch is
\* sent only when pagination has finished and the fetch of every earlier
\* batch has ended, answered or exhausted.
C15_Step ==
  /\ inFlight <= 1
  /\ inFlight' <= 1
  /\ (pc = "batches" /\ pc' = "fetch") => (inFlight = 0 /\ WalkOver)
  /\ (pc = "fetch" /\ inFlight' = inFlight + 1) =>
       /\ inFlight = 0
       /\ WalkOver
       /\ batchIdx <= Len(batches)
       /\ Len(outcomes) = batchIdx - 1
       /\ \A k \in 1..(batchIdx - 1) : outcomes[k].batch = batches[k]

C15_StrictlySequential == [][C15_Step]_vars

\* the request for the second batch is in flight, the first batch's fetch
\* having ended
C15_Witness ==
  /\ pc = "fetch"
  /\ inFlight = 1
  /\ batchIdx = 2
  /\ Len(outcomes) = 1
  /\ WalkOver

\* C17: between every two successive page requests of one walk, the first
\* and the second included, the inter-request pause elapses: a page request
\* of the loop is sent only when a pause was the last thing to happen.
C17_Step ==
  (pc = "walk" /\ inFlight' = inFlight + 1) => since = "interPage"

C17_PauseBetweenPageRequests == [][C17_Step]_vars

\* C18: the request that dispatches a batch is sent right after the
\* inter-batch pause, and every request that follows a failed attempt is
\* sent right after the backoff.
C18_Step ==
  (pc = "fetch" /\ inFlight' = inFlight + 1) =>
    since = IF retries = 0 THEN "interBatch" ELSE "backoff"

C18_PausesBeforeBodiesRequests == [][C18_Step]_vars

\* a retry for the second batch is in flight
C18_Witness ==
  /\ pc = "fetch"
  /\ inFlight = 1
  /\ batchIdx >= 2
  /\ retries > 0
  /\ since = "backoff"

\* C19: a run that has started eventually returns its output sequence to
\* the driver.
C19_RunEventuallyReturns ==
  (pc = "getPoolInfo") ~> (pc = "sync")

\* the batches of this run, end to end
RECURSIVE Flat(_)
Flat(bs) == IF bs = <<>> THEN <<>> ELSE Head(bs) \o Flat(Tail(bs))

\* the walk positions within the cap whose record succeeded, and those
\* beyond the cap whose record succeeded
KeptPositions ==
  { i \in 1..Len(allSignatures) : i <= SLICE_CAP /\ allSignatures[i].err = None }
CutPositions ==
  { i \in 1..Len(allSignatures) : i > SLICE_CAP /\ allSignatures[i].err = None }

\* C21: the cap (5000 in the source, SLICE_CAP here) is applied to the raw
\* walk before the success filter and after pagination has run to its empty
\* page: the forwarded records are exactly the successful ones among the
\* newest SLICE_CAP walked records, in walk order; a successful record
\* beyond the cap is neither fetched nor priced, even when fewer than
\* SLICE_CAP records are forwarded; the walk is every page up to the empty
\* one, whatever the cap.
C21_CapBeforeFilterAfterWalk ==
  Walked =>
    LET forwarded == Flat(batches)
    IN  /\ Len(forwarded) = Cardinality(KeptPositions)
        /\ \A k \in 1..Len(forwarded) :
             \E i \in KeptPositions :
               /\ forwarded[k] = allSignatures[i]
               /\ Cardinality({ j \in KeptPositions : j <= i }) = k
        /\ \A i \in CutPositions :
             /\ \A r \in Range(forwarded) : r.signature # allSignatures[i].signature
             /\ \A o \in Range(outcomes) : \A r \in Range(o.batch) :
                  r.signature # allSignatures[i].signature
             /\ \A t \in Range(priceHistory) : t.signature # allSignatures[i].signature
        /\ WalkOver
        /\ allSignatures = ConcatPages(pages)

\* every batch fetched in a run that walked past the cap, dropped a failed
\* record within it and left out a successful record with trades beyond it
C21_Witness ==
  /\ pc = "batches"
  /\ batchIdx > Len(batches)
  /\ \A o \in Range(outcomes) : o.ok
  /\ Len(allSignatures) > SLICE_CAP
  /\ Len(Flat(batches)) < SLICE_CAP
  /\ priceHistory # <<>>
  /\ \E i \in CutPositions :
       /\ (allSignatures[i].signature % SigStride) \notin unresolved
       /\ computeTokenPrice(TxOf(allSignatures[i].signature), Agent.mint) # <<>>

====
